---------------------------- MODULE Spec2Model ----------------------------
(***************************************************************************)
(* A model of markovbot's concurrent state: the training-sample ledger of  *)
(* the Markov cog (markov_training_sample and the two flush paths), the    *)
(* per-user cooldown gate, and the configuration mapping both of them read.*)
(*                                                                         *)
(* The cog runs on one asyncio event loop: a handler runs without          *)
(* interruption from one await that really suspends to the next, so every  *)
(* action below is the code between two such awaits.                       *)
(***************************************************************************)
EXTENDS Integers, Sequences, FiniteSets, TLC

(***************************************************************************)
(* Bounds of the model.                                                    *)
(***************************************************************************)
\* message-observed events that carry a new message identifier
MaxMessages == 2
\* last instant of the simulated clock (seconds)
MaxTime == 5
\* largest COOLDOWN_RATE (burst) a config file sets
MaxRate == 3
\* largest COOLDOWN_STANDARD (window, seconds) a config file sets
MaxStandard == 2
\* largest interaction count the model lets a user's cooldown state reach
MaxCount == 6

\* clean_content of a message
Contents == {"hello", "world"}
\* author ids of the trigger messages; user 2 is listed in NO_COOLDOWN_USERS
Users == {1, 2}
\* the scheduled flush, and two invocations of the /update_markov_chain command
Loop == "loop"
Commands == {"command1", "command2"}
Flushers == {Loop} \cup Commands
MessageIds == 1..MaxMessages

VARIABLES
    config,                  \* BotConfig._config
    markov_training_sample,  \* Markov.markov_training_sample (a dict, in insertion order)
    next_id,                 \* the identifier the platform gives the next new message
    flush_pc,                \* where each flush invocation is
    flush_enabled,           \* ENABLE_MARKOV_TRAINING as a flush in progress read it
    snapshot,                \* the entries whose values a flush in progress passed on
    del_pc,                  \* where the message-deleted handler is
    del_payload,             \* the RawMessageDeleteEvent of the handler while it is suspended
    del_outcome,             \* how the handler ended last
    submitted,               \* identifiers whose content was passed to the model update
    deleted,                 \* identifiers the ledger held when the handler of their
                             \* deletion event ended (followed in DeletionSpec)
    cooldowns,               \* Markov.cooldowns (user id -> count, last_interaction)
    now,                     \* datetime.datetime.now, in seconds
    call,                    \* the cooldown call or trigger handled last, and its result
    streak,                  \* update_cooldown calls of a user in a row, no time elapsed
    phase,                   \* a user's way from on cooldown ("cooling"), over the window
                             \* elapsing with no interaction ("expired"), to one
                             \* update_cooldown after it ("updated")
    admitted,                \* instants of a non-exempt user's latest admitted triggers
    evaluation,              \* a call of is_on_cooldown followed from one get_config to
                             \* the next (in EvaluationSpec)
    config_id,               \* which dict object BotConfig._config refers to: the
                             \* number of mappings published after the first
    fs_file,                 \* what opening and parsing the config file gives
    watcher,                 \* where the observer thread is in FileWatcher.on_modified
    original_config,         \* on_modified's copy of the mapping it found
    local_config,            \* set_config_values' local _config, built and not yet published
    modified_keys,           \* on_modified's modified_keys, as computed last
    log_records,             \* records the last finished on_modified passed to logger.info
    published_from           \* the parsed file the published mapping was built from

ledger_vars == <<markov_training_sample, next_id, flush_pc, flush_enabled, snapshot,
                 del_pc, del_payload, del_outcome, submitted, deleted>>
gate_vars == <<cooldowns, now, call, streak, phase, admitted, evaluation>>
store_vars == <<config_id, fs_file, watcher, original_config, local_config,
                modified_keys, log_records, published_from>>
vars == <<config, ledger_vars, gate_vars, store_vars>>

(***************************************************************************)
(* Python's dict, as the sequence of its items in insertion order.         *)
(***************************************************************************)
dict_keys(d) == {d[i].id : i \in DOMAIN d}

\* list(d.values())
dict_values(d) == [i \in DOMAIN d |-> d[i].content]

dict_get(d, k) == LET hit == {i \in DOMAIN d : d[i].id = k}
                  IN  IF hit = {} THEN "None" ELSE d[CHOOSE i \in hit : TRUE].content

\* a plausible slip: the entry is appended whether or not the key is present
dict_setitem_append(d, k, v) == Append(d, [id |-> k, content |-> v])

\* d[k] = v: an existing key keeps its place and gets the new value
dict_setitem(d, k, v) ==
    IF k \in dict_keys(d)
    THEN [i \in DOMAIN d |-> IF d[i].id = k THEN [id |-> k, content |-> v] ELSE d[i]]
    ELSE Append(d, [id |-> k, content |-> v])

\* d.pop(k, None)
dict_pop(d, k) == SelectSeq(d, LAMBDA e : e.id # k)

\* d.clear()
dict_clear(d) == << >>

(***************************************************************************)
(* BotConfig                                                               *)
(***************************************************************************)
\* the parsed config files the model draws reloads from
ConfigFiles ==
    [RATE : 1..MaxRate, STANDARD : 1..MaxStandard, ENABLE_MARKOV_TRAINING : BOOLEAN]

\* a plausible slip: the training flag is carried over like CURRENT_MARKOV_CHAIN
set_config_values_flag_kept(old, config_json) ==
    [COOLDOWN_RATE |-> config_json.RATE,
     COOLDOWN_STANDARD |-> config_json.STANDARD,
     NO_COOLDOWN_USERS |-> {2},
     ENABLE_MARKOV_TRAINING |-> old.ENABLE_MARKOV_TRAINING,
     CURRENT_MARKOV_CHAIN |-> old.CURRENT_MARKOV_CHAIN]

\* BotConfig.set_config_values: a new mapping from the file, CURRENT_MARKOV_CHAIN kept
set_config_values(old, config_json) ==
    [COOLDOWN_RATE |-> config_json.RATE,
     COOLDOWN_STANDARD |-> config_json.STANDARD,
     NO_COOLDOWN_USERS |-> {2},
     ENABLE_MARKOV_TRAINING |-> config_json.ENABLE_MARKOV_TRAINING,
     CURRENT_MARKOV_CHAIN |-> old.CURRENT_MARKOV_CHAIN]

\* BotConfig.get_config(name)
get_config(name) == config[name]

\* the file a mapping's values were read from
config_json_of(mapping) ==
    [RATE |-> mapping.COOLDOWN_RATE, STANDARD |-> mapping.COOLDOWN_STANDARD,
     ENABLE_MARKOV_TRAINING |-> mapping.ENABLE_MARKOV_TRAINING]

\* FileWatcher.on_modified, for a config file that changes the training flag only
on_modified_training(enable) ==
    /\ enable # get_config("ENABLE_MARKOV_TRAINING")
    /\ config' = set_config_values(config,
                    [RATE |-> config.COOLDOWN_RATE, STANDARD |-> config.COOLDOWN_STANDARD,
                     ENABLE_MARKOV_TRAINING |-> enable])


(***************************************************************************)
(* The training ledger: message-observed and message-deleted handlers      *)
(***************************************************************************)
NoPayload == [message_id |-> 0, cached |-> FALSE]

\* a plausible slip: the author check is left out
record_bots_too(sample, enabled, message) ==
    IF ~enabled THEN sample
    ELSE dict_setitem(sample, message.id, message.content)

\* the body of add_message_to_markov_training_sample: the ledger it leaves
record(sample, enabled, message) ==
    IF ~enabled THEN sample
    ELSE IF message.bot THEN sample
    ELSE dict_setitem(sample, message.id, message.content)

\* on_message -> add_message_to_markov_training_sample. The platform issues
\* identifiers in order and never reuses one; an identifier still in the ledger
\* may be delivered again, and then the handler overwrites its entry.
add_message_to_markov_training_sample(m, content, bot) ==
    /\ \/ m = next_id /\ next_id <= MaxMessages
       \/ m \in dict_keys(markov_training_sample)
    /\ markov_training_sample' =
           record(markov_training_sample, get_config("ENABLE_MARKOV_TRAINING"),
                  [id |-> m, content |-> content, bot |-> bot])
    /\ next_id' = IF m = next_id THEN next_id + 1 ELSE next_id
    /\ UNCHANGED <<config, flush_pc, flush_enabled, snapshot, del_pc, del_payload,
                   del_outcome, submitted, gate_vars, store_vars, deleted>>

\* on_raw_message_delete -> remove_message_from_markov_training_sample, up to
\* its first await: the flag check, and the pop when the payload carries the
\* cached message. Without it the handler suspends in fetch_channel.
remove_message_called(m, cached) ==
    /\ del_pc = "idle"
    /\ m \in 1..(next_id - 1)
    /\ IF ~get_config("ENABLE_MARKOV_TRAINING")
       THEN /\ del_pc' = "idle"
            /\ del_outcome' = "disabled"
            /\ UNCHANGED <<markov_training_sample, del_payload>>
       ELSE IF cached
       THEN /\ del_pc' = "idle"
            /\ del_outcome' = "popped"
            /\ markov_training_sample' = dict_pop(markov_training_sample, m)
            /\ UNCHANGED del_payload
       ELSE /\ del_pc' = "fetching"
            /\ del_outcome' = "none"
            /\ del_payload' = [message_id |-> m, cached |-> cached]
            /\ UNCHANGED markov_training_sample
    /\ UNCHANGED <<config, next_id, flush_pc, flush_enabled, snapshot, submitted,
                   gate_vars, store_vars>>

remove_message_from_markov_training_sample(m, cached) ==
    /\ remove_message_called(m, cached)
    /\ UNCHANGED deleted

\* the same, the handled deletion noted when the handler ends in this step
remove_message_noted(m, cached) ==
    /\ remove_message_called(m, cached)
    /\ deleted' = IF del_pc' = "idle"
                  THEN deleted \cup ({m} \cap dict_keys(markov_training_sample))
                  ELSE deleted

\* What the lookup of an uncached message can come to. The message is deleted,
\* so channel.fetch_message raises NotFound and the handler logs and returns;
\* fetch_channel itself can raise (self.BotConfig is no attribute the cog sets
\* in this file, and the request can fail); "found" is the lookup succeeding.
FetchOutcomes == {"found", "not_found", "raised"}

\* the handler resumed from fetch_channel / fetch_message
remove_message_resumed(outcome) ==
    /\ del_pc = "fetching"
    /\ del_pc' = "idle"
    /\ del_payload' = NoPayload
    /\ IF outcome = "found"
       THEN /\ del_outcome' = "popped"
            /\ markov_training_sample' =
                   dict_pop(markov_training_sample, del_payload.message_id)
       ELSE /\ del_outcome' = outcome
            /\ UNCHANGED markov_training_sample
    /\ UNCHANGED <<config, next_id, flush_pc, flush_enabled, snapshot, submitted,
                   gate_vars, store_vars>>

remove_message_fetched(outcome) ==
    /\ remove_message_resumed(outcome)
    /\ UNCHANGED deleted

\* the same, the handled deletion noted
remove_message_fetched_noted(outcome) ==
    /\ remove_message_resumed(outcome)
    /\ deleted' = deleted \cup ({del_payload.message_id}
                                    \cap dict_keys(markov_training_sample))

(***************************************************************************)
(* The two flush paths                                                     *)
(***************************************************************************)
\* How the awaited update_markov_chain_for_model (markovbot.lib.markov) can end:
\* it returns, or it raises and the exception leaves the handler.
UpdateOutcomes == {"returned", "raised"}

\* the arguments of update_markov_chain_for_model are evaluated, among them
\* list(self.markov_training_sample.values()), and the call is awaited: the
\* handler is suspended in the model update
call_update_markov_chain_for_model(f) ==
    /\ flush_pc' = [flush_pc EXCEPT ![f] = "updating"]
    /\ snapshot' = [snapshot EXCEPT ![f] = markov_training_sample]
    /\ submitted' = submitted \cup dict_keys(markov_training_sample)

\* the list a flush in progress passed to update_markov_chain_for_model
batch(f) == dict_values(snapshot[f])

\* a plausible slip: the ledger is cleared whether or not the update raised
after_update_always_clear(sample, outcome) == dict_clear(sample)

\* the statement after the await: self.markov_training_sample.clear(), which an
\* exception out of the await skips
after_update(sample, outcome) ==
    IF outcome = "returned" THEN dict_clear(sample) ELSE sample

\* the handler resumed from the model update
resume_from_update(f, outcome) ==
    /\ flush_pc[f] = "updating"
    /\ flush_pc' = [flush_pc EXCEPT ![f] = IF outcome = "raised" THEN "raised" ELSE "idle"]
    /\ flush_enabled' = [flush_enabled EXCEPT ![f] = TRUE]
    /\ snapshot' = [snapshot EXCEPT ![f] = << >>]
    /\ markov_training_sample' = after_update(markov_training_sample, outcome)
    /\ UNCHANGED <<config, next_id, del_pc, del_payload, del_outcome, submitted,
                   gate_vars, store_vars, deleted>>

\* /update_markov_chain, up to its first await: the flag is read and either
\* branch awaits a response to the interaction; neither returns
update_markov_chain(f) ==
    /\ f \in Commands
    /\ flush_pc[f] \in {"idle", "raised"}
    /\ flush_pc' = [flush_pc EXCEPT ![f] = "responding"]
    /\ flush_enabled' = [flush_enabled EXCEPT ![f] = get_config("ENABLE_MARKOV_TRAINING")]
    /\ UNCHANGED <<config, markov_training_sample, next_id, snapshot, del_pc,
                   del_payload, del_outcome, submitted, gate_vars, store_vars, deleted>>

\* the command resumed from send_message / defer: the model update is called
update_markov_chain_call(f) ==
    /\ f \in Commands
    /\ flush_pc[f] = "responding"
    /\ call_update_markov_chain_for_model(f)
    /\ UNCHANGED <<config, markov_training_sample, next_id, flush_enabled, del_pc,
                   del_payload, del_outcome, gate_vars, store_vars, deleted>>

\* the command resumed from the model update; edit_original_message follows
\* the clear and touches no state of the cog
update_markov_chain_resume(f, outcome) ==
    /\ f \in Commands
    /\ resume_from_update(f, outcome)

\* the 6-hourly task fires: it returns when training is disabled, and calls the
\* model update otherwise. The body catches nothing, and disnake's tasks.Loop
\* re-raises what the body raises (connection errors apart, which it retries):
\* the task an exception left does not fire again.
markov_chain_update_loop ==
    /\ flush_pc[Loop] = "idle"
    /\ IF ~get_config("ENABLE_MARKOV_TRAINING")
       THEN /\ flush_pc' = [flush_pc EXCEPT ![Loop] = "idle"]
            /\ UNCHANGED <<flush_enabled, snapshot, submitted>>
       ELSE /\ call_update_markov_chain_for_model(Loop)
            /\ flush_enabled' = [flush_enabled EXCEPT ![Loop] = TRUE]
    /\ UNCHANGED <<config, markov_training_sample, next_id, del_pc, del_payload,
                   del_outcome, gate_vars, store_vars, deleted>>

\* the task resumed from the model update
markov_chain_update_loop_resume(outcome) ==
    resume_from_update(Loop, outcome)

\* the config file is saved with the training flag changed and the watcher
\* publishes the reloaded configuration, in one step: what the ledger's handlers
\* see of a reload (ReloadSpec follows the watcher through it)
on_modified_ledger(enable) ==
    /\ on_modified_training(enable)
    /\ fs_file' = [kind |-> "ok", json |-> config_json_of(config')]
    /\ published_from' = config_json_of(config')
    /\ UNCHANGED <<ledger_vars, gate_vars, config_id, watcher, original_config,
                   local_config, modified_keys, log_records>>

(***************************************************************************)
(* The configuration store and its watcher. watchdog's observer thread     *)
(* runs FileWatcher.on_modified in parallel with the event loop, so the    *)
(* handler is taken apart wherever it reads or writes BotConfig._config;   *)
(* opening the file, reading CURRENT_MARKOV_CHAIN and building the local   *)
(* dict are one step, as what the other thread does between them could as  *)
(* well have come before the file was opened or after the dict was built.  *)
(***************************************************************************)
\* reloads the model follows the watcher through
MaxReloads == 2

\* the ways set_config_values ends in an exception: neither $BOT_CONFIG nor
\* ./bot-config.json opens (the OSError of the second open leaves the except
\* clause), json.load raises JSONDecodeError (a ValueError, which the except
\* clause does not name), a key of the file is missing (KeyError), int()
\* rejects a value (ValueError, TypeError)
FileFailures == {"absent", "malformed", "missing_field", "wrong_type"}

\* the parsed files the watcher's reloads are drawn from
ReloadFiles == {f \in ConfigFiles : f.RATE >= MaxRate - 1 /\ f.STANDARD = MaxStandard}

NoJson == [RATE |-> 0, STANDARD |-> 0, ENABLE_MARKOV_TRAINING |-> FALSE]

\* what open and json.load make of the config file
FileStates ==
    [kind : {"ok"}, json : ReloadFiles] \cup [kind : FileFailures, json : {NoJson}]

\* the names of the chains set_config("CURRENT_MARKOV_CHAIN", ...) is called with
Chains == {"chain_a"}

NoConfig ==
    [COOLDOWN_RATE |-> 0, COOLDOWN_STANDARD |-> 0, NO_COOLDOWN_USERS |-> {},
     ENABLE_MARKOV_TRAINING |-> FALSE, CURRENT_MARKOV_CHAIN |-> "None"]

\* the locals config_json and _config of set_config_values
NoLocals == [config_json |-> NoJson, _config |-> NoConfig]

\* the keys of the mapping that come from the file and differ between the files
\* of the model
FileKeys == {"COOLDOWN_RATE", "COOLDOWN_STANDARD", "ENABLE_MARKOV_TRAINING"}

\* the config file is saved with other content
write_config_file(f) ==
    /\ f \in FileStates
    /\ f # fs_file
    /\ fs_file' = f
    /\ UNCHANGED <<config, ledger_vars, gate_vars, config_id, watcher, original_config,
                   local_config, modified_keys, log_records, published_from>>

\* FileWatcher.on_modified for a modified event of the config file, up to the
\* call of set_config_values: the mapping is copied
on_modified ==
    /\ watcher = "idle"
    /\ config_id < MaxReloads
    /\ watcher' = "loading"
    /\ original_config' = config
    /\ modified_keys' = {}
    /\ log_records' = 0
    /\ UNCHANGED <<config, ledger_vars, gate_vars, config_id, fs_file, local_config,
                   published_from>>

\* a plausible slip: the class attribute is emptied before the file is read
set_config_values_raises_reset(published) == NoConfig

\* BotConfig._config as an exception out of set_config_values leaves it: every
\* raise comes before the assignment to cls._config, the method's last statement
set_config_values_raises(published) == published

\* set_config_values up to its assignment of cls._config. An exception leaves
\* set_config_values and, on_modified catching nothing, on_modified; watchdog's
\* dispatcher thread catches nothing but queue.Empty around the handler, so the
\* thread ends with it.
set_config_values_load ==
    /\ watcher = "loading"
    /\ IF fs_file.kind # "ok"
       THEN /\ watcher' = "dead"
            /\ config' = set_config_values_raises(config)
            /\ UNCHANGED local_config
       ELSE /\ watcher' = "built"
            /\ local_config' = [config_json |-> fs_file.json,
                                _config |-> set_config_values(config, fs_file.json)]
            /\ UNCHANGED config
    /\ UNCHANGED <<ledger_vars, gate_vars, config_id, fs_file, original_config,
                   modified_keys, log_records, published_from>>

\* a plausible slip: the keys are written into the published dict one after the
\* other, and a reader comes in before the last of them
publish_key_by_key(published, built) ==
    [built EXCEPT !.ENABLE_MARKOV_TRAINING = published.ENABLE_MARKOV_TRAINING]

\* the mapping readers find after cls._config = _config
publish(published, built) == built

\* cls._config = _config: the attribute refers to the new dict
set_config_values_publish ==
    /\ watcher = "built"
    /\ watcher' = "published"
    /\ config' = publish(config, local_config._config)
    /\ config_id' = config_id + 1
    /\ published_from' = local_config.config_json
    /\ local_config' = NoLocals
    /\ UNCHANGED <<ledger_vars, gate_vars, fs_file, original_config, modified_keys,
                   log_records>>

\* a plausible slip: a key counts as changed when the two values are not the
\* same object, which the list of NO_COOLDOWN_USERS never is after a reload
modified_keys_by_identity(original, new) ==
    {key \in DOMAIN original : key \in DOMAIN new /\ original[key] # new[key]}
        \cup {"NO_COOLDOWN_USERS"}

\* the set comprehension of on_modified
modified_keys_between(original, new) ==
    {key \in DOMAIN original : key \in DOMAIN new /\ original[key] # new[key]}

\* on_modified from the return of set_config_values: new_config is the dict
\* BotConfig._config refers to; one record is logged for the heading and one
\* for every modified key
on_modified_log ==
    /\ watcher = "published"
    /\ watcher' = "idle"
    /\ modified_keys' = modified_keys_between(original_config, config)
    /\ log_records' = IF modified_keys' = {} THEN 0 ELSE 1 + Cardinality(modified_keys')
    /\ original_config' = NoConfig
    /\ UNCHANGED <<config, ledger_vars, gate_vars, config_id, fs_file, local_config,
                   published_from>>

\* BotConfig.set_config(name, value), called on the event loop: the item is
\* assigned in the dict BotConfig._config refers to
set_config(name, value) ==
    /\ config' = [config EXCEPT ![name] = value]
    /\ UNCHANGED <<ledger_vars, gate_vars, store_vars>>

(***************************************************************************)
(* Specifications of the ledger                                            *)
(***************************************************************************)
InitConfig ==
    [COOLDOWN_RATE |-> 2, COOLDOWN_STANDARD |-> 2, NO_COOLDOWN_USERS |-> {2},
     ENABLE_MARKOV_TRAINING |-> TRUE, CURRENT_MARKOV_CHAIN |-> "None"]

NoUserData == [present |-> FALSE, count |-> 0, last_interaction |-> 0]
NoCall == [op |-> "none", user |-> 0, ret |-> FALSE, streak |-> 0, phase |-> "none",
           elapsed |-> FALSE]

\* no call of is_on_cooldown followed yet: where the call is, whether it has
\* returned and what, its user, the instant and the user's state it started
\* with, the configurations published at its get_config calls, and the values
\* the three calls returned (0: not called)
NoEvaluation ==
    [pc |-> "idle", done |-> FALSE, user |-> 0, t |-> 0, user_data |-> NoUserData,
     read |-> {}, reset_standard |-> 0, rate |-> 0, standard |-> 0, ret |-> FALSE]

InitGate ==
    /\ evaluation = NoEvaluation
    /\ cooldowns = [u \in Users |-> NoUserData]
    /\ now = 0
    /\ call = NoCall
    /\ streak = [u \in Users |-> 0]
    /\ phase = [u \in Users |-> "none"]
    /\ admitted = [u \in Users |-> << >>]

InitLedger ==
    /\ markov_training_sample = << >>
    /\ next_id = 1
    /\ flush_pc = [f \in Flushers |-> "idle"]
    /\ flush_enabled = [f \in Flushers |-> TRUE]
    /\ snapshot = [f \in Flushers |-> << >>]
    /\ del_pc = "idle"
    /\ del_payload = NoPayload
    /\ del_outcome = "none"
    /\ submitted = {}
    /\ deleted = {}

\* the store after the import of markovbot.lib.config loaded the file, the
\* observer started and no event delivered
InitStore ==
    /\ config_id = 0
    /\ fs_file = [kind |-> "ok", json |-> config_json_of(config)]
    /\ watcher = "idle"
    /\ original_config = NoConfig
    /\ local_config = NoLocals
    /\ modified_keys = {}
    /\ log_records = 0
    /\ published_from = config_json_of(config)

LedgerInit ==
    /\ config \in {[InitConfig EXCEPT !.ENABLE_MARKOV_TRAINING = e] : e \in BOOLEAN}
    /\ InitLedger
    /\ InitGate
    /\ InitStore

\* the handlers of the ledger with the scheduled flush and one command: what a
\* sequence of record, remove and flush calls does to the ledger
LedgerNext ==
    \/ \E m \in MessageIds, content \in Contents, bot \in BOOLEAN :
          add_message_to_markov_training_sample(m, content, bot)
    \/ \E m \in MessageIds, cached \in BOOLEAN :
          remove_message_from_markov_training_sample(m, cached)
    \/ \E outcome \in FetchOutcomes : remove_message_fetched(outcome)
    \/ update_markov_chain("command1")
    \/ update_markov_chain_call("command1")
    \/ \E outcome \in UpdateOutcomes : update_markov_chain_resume("command1", outcome)
    \/ markov_chain_update_loop
    \/ \E outcome \in UpdateOutcomes : markov_chain_update_loop_resume(outcome)
    \/ \E enable \in BOOLEAN : on_modified_ledger(enable)

LedgerSpec == LedgerInit /\ [][LedgerNext]_vars

\* every flush path at once, the two command invocations overlapping each
\* other and the scheduled flush
FlushNext ==
    \/ \E m \in MessageIds, bot \in BOOLEAN :
          add_message_to_markov_training_sample(m, "hello", bot)
    \/ \E m \in MessageIds, cached \in BOOLEAN :
          remove_message_from_markov_training_sample(m, cached)
    \/ \E outcome \in FetchOutcomes : remove_message_fetched(outcome)
    \/ \E f \in Commands : update_markov_chain(f)
    \/ \E f \in Commands : update_markov_chain_call(f)
    \/ \E f \in Commands, outcome \in UpdateOutcomes : update_markov_chain_resume(f, outcome)
    \/ markov_chain_update_loop
    \/ \E outcome \in UpdateOutcomes : markov_chain_update_loop_resume(outcome)
    \/ \E enable \in BOOLEAN : on_modified_ledger(enable)

FlushSpec == LedgerInit /\ [][FlushNext]_vars

\* the ledger's handlers with the deletion events handled so far kept
DeletionNext ==
    \/ \E m \in MessageIds, bot \in BOOLEAN :
          add_message_to_markov_training_sample(m, "hello", bot)
    \/ \E m \in MessageIds, cached \in BOOLEAN : remove_message_noted(m, cached)
    \/ \E outcome \in FetchOutcomes : remove_message_fetched_noted(outcome)
    \/ update_markov_chain("command1")
    \/ update_markov_chain_call("command1")
    \/ \E outcome \in UpdateOutcomes : update_markov_chain_resume("command1", outcome)
    \/ markov_chain_update_loop
    \/ \E outcome \in UpdateOutcomes : markov_chain_update_loop_resume(outcome)
    \/ \E enable \in BOOLEAN : on_modified_ledger(enable)

DeletionSpec == LedgerInit /\ [][DeletionNext]_vars

(***************************************************************************)
(* The cooldown gate. is_on_cooldown, update_cooldown and                  *)
(* reset_cooldown_if_needed are coroutines that await nothing that         *)
(* suspends, so a call of one, and the listener from its check to its      *)
(* update, runs in one piece; the clock is read in whole seconds.          *)
(***************************************************************************)
\* self.cooldowns[user_id]: the defaultdict makes a missing user's state
cooldowns_getitem(cd, u, t) ==
    IF cd[u].present THEN cd[u]
    ELSE [present |-> TRUE, count |-> 0, last_interaction |-> t]

\* a plausible slip: the reset starts a new window as well
reset_cooldown_restarts_window(user_data, t, cfg) ==
    IF t - user_data.last_interaction >= cfg.COOLDOWN_STANDARD
    THEN [user_data EXCEPT !.count = 0, !.last_interaction = t]
    ELSE user_data

\* a plausible slip: the count is never reset
reset_cooldown_never(user_data, t, cfg) == user_data

\* reset_cooldown_if_needed
reset_cooldown_if_needed(user_data, t, cfg) ==
    IF t - user_data.last_interaction >= cfg.COOLDOWN_STANDARD
    THEN [user_data EXCEPT !.count = 0]
    ELSE user_data

\* what is_on_cooldown returns, for the user's state after the reset
is_on_cooldown(user_data, t, cfg) ==
    IF user_data.count < cfg.COOLDOWN_RATE THEN FALSE
    ELSE t - user_data.last_interaction < cfg.COOLDOWN_STANDARD

\* a plausible slip: every update starts a new window
update_cooldown_every_time(user_data, t, cfg) ==
    [present |-> TRUE, count |-> user_data.count + 1, last_interaction |-> t]

\* a plausible slip: the window starts only when the count equals the rate
update_cooldown_on_equal(user_data, t, cfg) ==
    LET count == user_data.count + 1
    IN  [present |-> TRUE, count |-> count,
         last_interaction |-> IF count = cfg.COOLDOWN_RATE
                              THEN t ELSE user_data.last_interaction]

\* update_cooldown
update_cooldown(user_data, t, cfg) ==
    LET count == user_data.count + 1
    IN  [present |-> TRUE, count |-> count,
         last_interaction |-> IF count >= cfg.COOLDOWN_RATE
                              THEN t ELSE user_data.last_interaction]

\* a call of is_on_cooldown(u)
IsOnCooldown(u) ==
    LET user_data == reset_cooldown_if_needed(cooldowns_getitem(cooldowns, u, now),
                                              now, config)
        ret == is_on_cooldown(user_data, now, config)
        elapsed == now - cooldowns_getitem(cooldowns, u, now).last_interaction
                       >= get_config("COOLDOWN_STANDARD")
        next_phase == IF ret THEN "cooling"
                      ELSE IF phase[u] \in {"cooling", "expired"} /\ elapsed THEN "expired"
                      ELSE "none"
    IN  /\ cooldowns' = [cooldowns EXCEPT ![u] = user_data]
        /\ call' = [op |-> "is_on_cooldown", user |-> u, ret |-> ret,
                    streak |-> streak[u], phase |-> phase[u], elapsed |-> elapsed]
        /\ streak' = [streak EXCEPT ![u] = 0]
        /\ phase' = [phase EXCEPT ![u] = next_phase]
        /\ UNCHANGED <<config, ledger_vars, store_vars, now, admitted, evaluation>>

\* a call of update_cooldown(u)
UpdateCooldown(u) ==
    /\ cooldowns[u].count < MaxCount
    /\ cooldowns' = [cooldowns EXCEPT
                        ![u] = update_cooldown(cooldowns_getitem(cooldowns, u, now),
                                               now, config)]
    /\ call' = [op |-> "update_cooldown", user |-> u, ret |-> FALSE,
                streak |-> 0, phase |-> "none", elapsed |-> FALSE]
    /\ streak' = [streak EXCEPT ![u] = IF @ < MaxCount THEN @ + 1 ELSE @]
    /\ phase' = [phase EXCEPT ![u] = IF @ = "expired" THEN "updated" ELSE "none"]
    /\ UNCHANGED <<config, ledger_vars, store_vars, now, admitted, evaluation>>

\* a second passes
Tick ==
    /\ now < MaxTime
    /\ now' = now + 1
    /\ streak' = [u \in Users |-> 0]
    /\ phase' = [u \in Users |-> IF phase[u] = "updated" THEN "none" ELSE phase[u]]
    /\ UNCHANGED <<config, ledger_vars, store_vars, cooldowns, call, admitted,
                   evaluation>>

\* the latest n instants of a user's admitted triggers
Latest(times, n) ==
    IF Len(times) <= n THEN times ELSE SubSeq(times, Len(times) - n + 1, Len(times))

\* a plausible slip: the exemption is left out of the listener's check
trigger_denied_exempt_or_not(user_data, u, t, cfg) == is_on_cooldown(user_data, t, cfg)

\* the condition under which the listener returns without a reply
trigger_denied(user_data, u, t, cfg) ==
    /\ is_on_cooldown(user_data, t, cfg)
    /\ u \notin cfg.NO_COOLDOWN_USERS

\* on_message -> listen_to_messages, for a trigger message ("?word") of user u,
\* up to the reply it awaits
listen_to_messages(u) ==
    LET user_data == reset_cooldown_if_needed(cooldowns_getitem(cooldowns, u, now),
                                              now, config)
        denied == trigger_denied(user_data, u, now, config)
    IN  /\ cooldowns[u].count < MaxCount
        /\ call' = [op |-> "listen_to_messages", user |-> u, ret |-> ~denied,
                    streak |-> 0, phase |-> "none", elapsed |-> FALSE]
        /\ IF denied
           THEN /\ cooldowns' = [cooldowns EXCEPT ![u] = user_data]
                /\ UNCHANGED admitted
           ELSE /\ cooldowns' = [cooldowns EXCEPT
                                    ![u] = update_cooldown(user_data, now, config)]
                /\ admitted' = IF u \in get_config("NO_COOLDOWN_USERS") THEN admitted
                               ELSE [admitted EXCEPT
                                        ![u] = Latest(Append(@, now),
                                                      get_config("COOLDOWN_RATE") + 1)]
        /\ UNCHANGED <<config, ledger_vars, store_vars, now, streak, phase, evaluation>>

\* the mappings set_config_values publishes for the config files of the model
GateConfigs ==
    {set_config_values(InitConfig, config_json) : config_json \in ConfigFiles}

GateInit ==
    /\ config \in GateConfigs
    /\ InitLedger
    /\ InitGate
    /\ InitStore

\* the gate's operations called one by one, in any order, for one user (the
\* operations touch no state but the user's own)
GateNext ==
    \/ IsOnCooldown(1)
    \/ UpdateCooldown(1)
    \/ Tick

GateSpec == GateInit /\ [][GateNext]_vars

\* the gate as the cog uses it: trigger messages and the clock
ListenerNext ==
    \/ \E u \in Users : listen_to_messages(u)
    \/ Tick

ListenerSpec == GateInit /\ [][ListenerNext]_vars

\* the config file is saved with other content and the watcher publishes the
\* reloaded configuration, in one step: what the gate sees of a reload
on_modified_gate(config_json) ==
    /\ config_json # config_json_of(config)
    /\ config' = set_config_values(config, config_json)
    /\ fs_file' = [kind |-> "ok", json |-> config_json]
    /\ published_from' = config_json
    /\ UNCHANGED <<ledger_vars, gate_vars, config_id, watcher, original_config,
                   local_config, modified_keys, log_records>>

\* the gate's operations called one by one with reloads of the configuration
\* between them; the calls the listener makes for a user, exempt or not, are
\* among these sequences
GateReloadNext ==
    \/ IsOnCooldown(1)
    \/ UpdateCooldown(1)
    \/ Tick
    \/ \E config_json \in ConfigFiles : on_modified_gate(config_json)

GateReloadSpec == GateInit /\ [][GateReloadNext]_vars

(***************************************************************************)
(* is_on_cooldown against the watcher thread. The coroutine yields to no   *)
(* other handler of the event loop, but the observer thread runs beside    *)
(* it: the call is taken apart at its three get_config calls, between      *)
(* which a reload can publish. The clock is read once, at the call.        *)
(* The call's reads are kept until its caller has the result.              *)
(***************************************************************************)
\* the values of the published mapping that a get_config of the gate returns
gate_config(mapping) ==
    [COOLDOWN_RATE |-> mapping.COOLDOWN_RATE,
     COOLDOWN_STANDARD |-> mapping.COOLDOWN_STANDARD]

\* the config files that turn training on: the gate reads no other key than
\* the rate and the window
GateFiles == {f \in ConfigFiles : f.ENABLE_MARKOV_TRAINING}

\* is_on_cooldown(u) is called: user_data = self.cooldowns[user_id]
is_on_cooldown_called(u) ==
    /\ evaluation.pc = "idle"
    /\ cooldowns' = [cooldowns EXCEPT ![u] = cooldowns_getitem(cooldowns, u, now)]
    /\ evaluation' = [NoEvaluation EXCEPT !.pc = "reset", !.user = u, !.t = now,
                                          !.user_data = cooldowns'[u]]
    /\ UNCHANGED <<config, ledger_vars, store_vars, now, call, streak, phase, admitted>>

\* reset_cooldown_if_needed: get_config("COOLDOWN_STANDARD") and the reset
is_on_cooldown_reset ==
    /\ evaluation.pc = "reset"
    /\ cooldowns' = [cooldowns EXCEPT
                        ![evaluation.user] = reset_cooldown_if_needed(@, evaluation.t, config)]
    /\ evaluation' = [evaluation EXCEPT !.pc = "rate",
                                        !.read = @ \cup {gate_config(config)},
                                        !.reset_standard = get_config("COOLDOWN_STANDARD")]
    /\ UNCHANGED <<config, ledger_vars, store_vars, now, call, streak, phase, admitted>>

\* if user_data["count"] < get_config("COOLDOWN_RATE"): return False
is_on_cooldown_rate ==
    /\ evaluation.pc = "rate"
    /\ evaluation' =
           IF cooldowns[evaluation.user].count < get_config("COOLDOWN_RATE")
           THEN [evaluation EXCEPT !.pc = "returning", !.done = TRUE, !.ret = FALSE,
                                   !.read = @ \cup {gate_config(config)},
                                   !.rate = get_config("COOLDOWN_RATE")]
           ELSE [evaluation EXCEPT !.pc = "standard",
                                   !.read = @ \cup {gate_config(config)},
                                   !.rate = get_config("COOLDOWN_RATE")]
    /\ UNCHANGED <<config, ledger_vars, store_vars, cooldowns, now, call, streak, phase,
                   admitted>>

\* return now - last_interaction < timedelta(seconds=get_config("COOLDOWN_STANDARD"))
is_on_cooldown_standard ==
    /\ evaluation.pc = "standard"
    /\ evaluation' =
           [evaluation EXCEPT
               !.pc = "returning", !.done = TRUE,
               !.ret = evaluation.t - cooldowns[evaluation.user].last_interaction
                           < get_config("COOLDOWN_STANDARD"),
               !.read = @ \cup {gate_config(config)},
               !.standard = get_config("COOLDOWN_STANDARD")]
    /\ UNCHANGED <<config, ledger_vars, store_vars, cooldowns, now, call, streak, phase,
                   admitted>>

\* the caller has the result
is_on_cooldown_returned ==
    /\ evaluation.pc = "returning"
    /\ evaluation' = NoEvaluation
    /\ UNCHANGED <<config, ledger_vars, store_vars, cooldowns, now, call, streak, phase,
                   admitted>>

\* a second passes between two calls (a call takes far less)
tick_between ==
    /\ evaluation.pc = "idle"
    /\ Tick

\* update_cooldown(u), which the event loop runs between two calls of
\* is_on_cooldown and never within one
update_cooldown_between(u) ==
    /\ evaluation.pc = "idle"
    /\ cooldowns[u].count < MaxCount
    /\ cooldowns' = [cooldowns EXCEPT
                        ![u] = update_cooldown(cooldowns_getitem(cooldowns, u, now),
                                               now, config)]
    /\ UNCHANGED <<config, ledger_vars, store_vars, now, call, streak, phase, admitted,
                   evaluation>>

EvaluationNext ==
    \/ is_on_cooldown_called(1)
    \/ is_on_cooldown_reset
    \/ is_on_cooldown_rate
    \/ is_on_cooldown_standard
    \/ is_on_cooldown_returned
    \/ update_cooldown_between(1)
    \/ tick_between
    \/ \E config_json \in GateFiles : on_modified_gate(config_json)

EvaluationInit ==
    /\ config \in {set_config_values(InitConfig, config_json) : config_json \in GateFiles}
    /\ InitLedger
    /\ InitGate
    /\ InitStore

EvaluationSpec == EvaluationInit /\ [][EvaluationNext]_vars

(***************************************************************************)
(* The store with its watcher thread, and on the event loop set_config and *)
(* the message-observed handler, which reads the training flag.            *)
(***************************************************************************)
ReloadInit ==
    /\ config \in {set_config_values(InitConfig, config_json) : config_json \in ReloadFiles}
    /\ InitLedger
    /\ InitGate
    /\ InitStore

ReloadNext ==
    \/ \E f \in FileStates : write_config_file(f)
    \/ on_modified
    \/ set_config_values_load
    \/ set_config_values_publish
    \/ on_modified_log
    \/ \E value \in Chains : set_config("CURRENT_MARKOV_CHAIN", value)
    \/ \E m \in MessageIds, bot \in BOOLEAN :
          add_message_to_markov_training_sample(m, "hello", bot)

ReloadSpec == ReloadInit /\ [][ReloadNext]_vars

(***************************************************************************)
(* Properties of the configuration store and its watcher                   *)
(***************************************************************************)
ConfigKeys == DOMAIN InitConfig

\* a set_config call that sets the key
SetConfigStep(key) ==
    /\ key = "CURRENT_MARKOV_CHAIN"
    /\ \E value \in Chains : set_config(key, value)

\* C11: when a reload the watcher started has failed, the failing step and
\* every step after it leave each key of the published configuration as it
\* was, but for a key that a set_config call of that step sets: the reload
\* itself changes nothing that get_config returns
C11_FailedReloadKeepsConfig ==
    [][watcher' = "dead" =>
          \A key \in ConfigKeys : config'[key] = config[key] \/ SetConfigStep(key)]_vars

\* a reload failed on a file with a key missing, after an earlier reload had
\* published a mapping, and that mapping is still the published one
C11_Witness ==
    /\ watcher = "dead"
    /\ fs_file.kind = "missing_field"
    /\ config_id = 1
    /\ config_json_of(config) = published_from
    /\ config = original_config

\* C12: a failed reload does not stop the watcher: a valid config file that is
\* not the published one always finds the watcher running to handle its
\* modification event
C12_WatcherSurvivesFailedReload ==
    (fs_file.kind = "ok" /\ fs_file.json # published_from) => watcher # "dead"

\* C13: the changed keys a successful reload computes are exactly the keys of
\* the configuration whose value in the new mapping differs from the value in
\* the prior one, and a log record is emitted if and only if there is such a key
C13_ChangedKeysAreTheDifferingKeys ==
    [][on_modified_log =>
          /\ modified_keys' = {key \in ConfigKeys : original_config[key] # config[key]}
          /\ (modified_keys' = {}) <=> (log_records' = 0)]_vars

\* a reload that changed two keys reported the two, in three log records
C13_Witness ==
    /\ watcher = "idle"
    /\ modified_keys = {"COOLDOWN_RATE", "ENABLE_MARKOV_TRAINING"}
    /\ log_records = 3

\* the new mapping differs from the one the handler copied in the training flag only
OnlyTrainingFlagChanged ==
    \A key \in ConfigKeys :
        (original_config[key] # config[key]) <=> (key = "ENABLE_MARKOV_TRAINING")

C15_ReadersSeeOneWholeMapping ==
    /\ config_json_of(config) = published_from
    /\ watcher \in {"loading", "built", "dead"}
           => config_json_of(config) = config_json_of(original_config)

\* a reload has published a mapping that differs from the prior one in two keys
C15_Witness ==
    /\ watcher = "published"
    /\ config.COOLDOWN_RATE # original_config.COOLDOWN_RATE
    /\ config.ENABLE_MARKOV_TRAINING # original_config.ENABLE_MARKOV_TRAINING

\* C22: what get_config("CURRENT_MARKOV_CHAIN") returns survives reloads: no
\* step but a set_config call changes it, so that with the calls and the
\* reloads finished it is the value set last
C22_ChainSurvivesReloads ==
    [][config'.CURRENT_MARKOV_CHAIN # config.CURRENT_MARKOV_CHAIN
          => SetConfigStep("CURRENT_MARKOV_CHAIN")]_vars

\* C16: the contents of a published mapping never change: as long as
\* BotConfig._config refers to the same dict, get_config returns the same for
\* every key
C16_PublishedMappingNeverMutated ==
    [][config_id' = config_id => config' = config]_vars

(***************************************************************************)
(* Properties of the ledger                                                *)
(***************************************************************************)
Updating(f) == flush_pc[f] = "updating"

\* a step of the message-deleted handler
DeletionStep ==
    \/ \E m \in MessageIds, cached \in BOOLEAN :
          remove_message_from_markov_training_sample(m, cached)
    \/ \E outcome \in FetchOutcomes : remove_message_fetched(outcome)

\* C1: a message the ledger holds leaves it only through a deletion event or
\* after its content was passed to the model update by some flush; a message
\* recorded while a flush is suspended in the model update is not cleared
\* unsubmitted.
C1_NoRecordLostMidFlush ==
    [][(\E m \in dict_keys(markov_training_sample) :
            /\ m \notin dict_keys(markov_training_sample')
            /\ m \notin submitted)
       => DeletionStep]_vars

\* C2: two flushes that overlap in time pass no ledger entry to the model
\* update twice: the entries they snapshotted are disjoint.
C2_NoDoubleSubmit ==
    \A f \in Flushers, g \in Flushers :
        (f # g /\ Updating(f) /\ Updating(g))
        => dict_keys(snapshot[f]) \cap dict_keys(snapshot[g]) = {}

\* C3: a flush invoked while ENABLE_MARKOV_TRAINING is false never calls the
\* model update, whichever trigger invoked it.
C3_DisabledFlushIsNoOp ==
    \A f \in Flushers : Updating(f) => flush_enabled[f]

\* the step on which the model update of flush f raises
UpdateRaises(f) == Updating(f) /\ flush_pc'[f] = "raised"

Removed(m) ==
    /\ m \notin dict_keys(markov_training_sample')
    /\ \A k \in MessageIds \ {m} :
          dict_get(markov_training_sample', k) = dict_get(markov_training_sample, k)

\* C5: with training enabled, the message-deleted handler completes without
\* error and leaves no entry for the message, the other entries unchanged,
\* whether or not the payload carries the cached message.
C5_DeleteAlwaysRemoves ==
    [][/\ \A m \in MessageIds :
             (remove_message_from_markov_training_sample(m, TRUE)
              /\ get_config("ENABLE_MARKOV_TRAINING"))
             => Removed(m)
       /\ \A outcome \in FetchOutcomes :
             remove_message_fetched(outcome)
             => (del_outcome' = "popped" /\ Removed(del_payload.message_id))]_vars

\* C21: a flush that takes its snapshot after the deletion event of a recorded
\* message was handled does not pass that message to the model update
C21_DeletedNeverSubmitted ==
    [][\A f \in Flushers :
          (~Updating(f) /\ flush_pc'[f] = "updating")
              => dict_keys(snapshot'[f]) \cap deleted = {}]_vars

\* C17: an exception out of the model update does not end the scheduled task:
\* after every scheduled flush, a failed one included, the task is left to
\* fire again
C17_LoopSurvivesFailedUpdate == flush_pc[Loop] # "raised"

\* C9: the list a flush passes to the model update has one content string per
\* identifier in the ledger at the instant the flush reads it.
C9_BatchSizeIsDistinctIds ==
    \A f \in Flushers :
        Updating(f) => Len(batch(f)) = Cardinality(dict_keys(snapshot[f]))

\* C9's case: a flush passed two contents after a removal, and after an
\* overwrite (another flush in progress read the same identifier with the
\* earlier content).
C9_Witness ==
    \E f \in Flushers, g \in Flushers :
        /\ Updating(f) /\ Updating(g)
        /\ Len(batch(f)) = 2
        /\ del_outcome = "popped"
        /\ \E i \in DOMAIN snapshot[f], j \in DOMAIN snapshot[g] :
              /\ snapshot[f][i].id = snapshot[g][j].id
              /\ snapshot[f][i].content # snapshot[g][j].content

\* C10: record leaves the ledger unchanged when training is disabled or the
\* author is a bot; otherwise the entry of the identifier becomes the content,
\* every other entry stays, and no identifier has two entries.
C10_Record ==
    [][\A m \in MessageIds, content \in Contents, bot \in BOOLEAN :
          add_message_to_markov_training_sample(m, content, bot)
          => IF ~get_config("ENABLE_MARKOV_TRAINING") \/ bot
             THEN markov_training_sample' = markov_training_sample
             ELSE /\ dict_get(markov_training_sample', m) = content
                  /\ \A k \in MessageIds \ {m} :
                        dict_get(markov_training_sample', k)
                            = dict_get(markov_training_sample, k)
                  /\ dict_keys(markov_training_sample')
                        = dict_keys(markov_training_sample) \cup {m}
                  /\ Len(markov_training_sample')
                        = Cardinality(dict_keys(markov_training_sample'))]_vars

\* C10's case: an entry was overwritten (a flush in progress read the
\* identifier with another content than the ledger holds now) while a second
\* entry stayed.
C10_Witness ==
    /\ Len(markov_training_sample) = 2
    /\ \E f \in Flushers :
          /\ Updating(f)
          /\ \E i \in DOMAIN snapshot[f], j \in DOMAIN markov_training_sample :
                /\ snapshot[f][i].id = markov_training_sample[j].id
                /\ snapshot[f][i].content # markov_training_sample[j].content

(***************************************************************************)
(* Properties of the cooldown gate                                         *)
(***************************************************************************)
\* C6: in the listener flow, once COOLDOWN_RATE triggers of a non-exempt user
\* were admitted within less than COOLDOWN_STANDARD seconds, no further trigger
\* of the user is admitted less than COOLDOWN_STANDARD seconds after the last
\* of them.
C6_BurstLimited ==
    \A u \in Users \ get_config("NO_COOLDOWN_USERS") :
        LET burst == get_config("COOLDOWN_RATE")
            window == get_config("COOLDOWN_STANDARD")
            times == admitted[u]
        IN  Len(times) = burst + 1
            => ~(/\ times[burst] - times[1] < window
                 /\ times[burst + 1] - times[burst] < window)

\* C7: after COOLDOWN_RATE update_cooldown calls of a user in a row, no time
\* elapsing between them or before the check, is_on_cooldown returns true,
\* whatever the user's state was before them.
C7_OnCooldownAfterBurst ==
    (call.op = "is_on_cooldown" /\ call.streak >= get_config("COOLDOWN_RATE"))
    => call.ret

\* C7's case: the check after exactly COOLDOWN_RATE such calls that started
\* from a state with interactions counted already.
C7_Witness ==
    /\ call.op = "is_on_cooldown"
    /\ call.streak = get_config("COOLDOWN_RATE")
    /\ cooldowns[call.user].count > get_config("COOLDOWN_RATE")
    /\ call.ret

\* the check of a user who was on cooldown, made once the window has elapsed
\* with no interaction, returns false
C8_FalseOnceExpired ==
    (call.op = "is_on_cooldown" /\ call.phase \in {"cooling", "expired"} /\ call.elapsed)
    => ~call.ret

\* the call of is_on_cooldown right after the single update_cooldown that
\* followed the expiry
AfterSingleUpdate == call.op = "is_on_cooldown" /\ call.phase = "updated"

\* C8, as claimed: for every COOLDOWN_RATE >= 1 the user is off cooldown once
\* the window has elapsed, and still off cooldown after the next single
\* update_cooldown.
C8_OffCooldownAfterOneUpdate ==
    /\ C8_FalseOnceExpired
    /\ AfterSingleUpdate => ~call.ret

\* C8, amended: the same for every COOLDOWN_RATE >= 2; with a rate of 1 the
\* single update_cooldown uses up the burst and the user is on cooldown again.
C8_OffCooldownAfterOneUpdateOfSeveral ==
    /\ C8_FalseOnceExpired
    /\ (AfterSingleUpdate /\ get_config("COOLDOWN_RATE") >= 2) => ~call.ret
    /\ (AfterSingleUpdate /\ get_config("COOLDOWN_RATE") = 1) => call.ret

\* C8's case: with a rate of 2 or more, the check right after the update that
\* followed the expiry.
C8_Witness ==
    /\ AfterSingleUpdate
    /\ get_config("COOLDOWN_RATE") >= 2
    /\ ~call.ret

\* C18: a trigger of a user listed in NO_COOLDOWN_USERS is admitted whatever
\* the user's count and window are: the listener does not return early, and
\* update_cooldown counts the trigger
C18_ExemptAlwaysAdmitted ==
    [][\A u \in Users :
          (listen_to_messages(u) /\ u \in get_config("NO_COOLDOWN_USERS"))
              => /\ call'.ret
                 /\ cooldowns'[u].count \in {1, cooldowns[u].count + 1}]_vars

\* the exempt user was admitted with the count past the rate and the window
\* still running
C18_Witness ==
    /\ call.op = "listen_to_messages"
    /\ call.user = 2
    /\ call.ret
    /\ cooldowns[2].count >= get_config("COOLDOWN_RATE") + 2
    /\ now - cooldowns[2].last_interaction < get_config("COOLDOWN_STANDARD")

\* a step changes the window start of a user whose state exists
WindowStartChanged(u) ==
    /\ cooldowns[u].present
    /\ cooldowns'[u].last_interaction # cooldowns[u].last_interaction

\* C19: last_interaction changes only in an update_cooldown whose increment
\* makes the count equal to COOLDOWN_RATE
C19_WindowStartsAtBurstOnly ==
    [][\A u \in Users :
          WindowStartChanged(u)
              => /\ UpdateCooldown(u)
                 /\ cooldowns'[u].count = get_config("COOLDOWN_RATE")]_vars

\* C19, as the code has it: last_interaction changes only in an update_cooldown
\* whose increment makes the count equal to or greater than COOLDOWN_RATE, which
\* sets it to the current time; an update that leaves the count below
\* COOLDOWN_RATE and every is_on_cooldown call leave it unchanged
C19_WindowStartsAtOrAboveBurstOnly ==
    [][\A u \in Users :
          /\ WindowStartChanged(u)
                => /\ UpdateCooldown(u)
                   /\ cooldowns'[u].count >= get_config("COOLDOWN_RATE")
                   /\ cooldowns'[u].last_interaction = now
          /\ (UpdateCooldown(u) /\ cooldowns'[u].count >= get_config("COOLDOWN_RATE"))
                => cooldowns'[u].last_interaction = now]_vars

\* an update moved the count above the rate and started a window
C19_Witness ==
    /\ call.op = "update_cooldown"
    /\ cooldowns[1].count > get_config("COOLDOWN_RATE")
    /\ cooldowns[1].last_interaction = now
    /\ now > 0

\* C20: a user's count is a natural number that a step leaves as it is, that
\* update_cooldown raises by one, or that the reset in is_on_cooldown sets to
\* zero; the reset comes only when COOLDOWN_STANDARD or more has passed since
\* last_interaction, and leaves last_interaction as it is
C20_CountSteps ==
    [][\A u \in Users :
          LET count == cooldowns[u].count
              after == cooldowns'[u].count
          IN  /\ after \in Nat
              /\ \/ after = count
                 \/ after = count + 1 /\ UpdateCooldown(u)
                 \/ /\ after = 0
                    /\ IsOnCooldown(u)
                    /\ now - cooldowns[u].last_interaction >= get_config("COOLDOWN_STANDARD")
                    /\ cooldowns'[u].last_interaction = cooldowns[u].last_interaction]_vars

\* the window of a user on cooldown elapsed and is_on_cooldown reset the count
C20_Witness ==
    /\ call.op = "is_on_cooldown"
    /\ call.elapsed
    /\ phase[1] = "expired"
    /\ cooldowns[1].count = 0
    /\ cooldowns[1].last_interaction < now

\* what is_on_cooldown returns for the followed call's user and instant when
\* every get_config of it reads the mapping cfg
WholeEvaluation(cfg) ==
    is_on_cooldown(reset_cooldown_if_needed(evaluation.user_data, evaluation.t, cfg),
                   evaluation.t, cfg)

\* C23: there is one configuration, published when the call of is_on_cooldown
\* started or while it ran, that holds every COOLDOWN_RATE and
\* COOLDOWN_STANDARD value the call used, and the call returns what it
\* returns when every value is read from that configuration
C23_EvaluationReadsOneConfig ==
    evaluation.done
        => \E cfg \in evaluation.read :
              /\ evaluation.reset_standard = cfg.COOLDOWN_STANDARD
              /\ evaluation.rate = cfg.COOLDOWN_RATE
              /\ evaluation.standard \in {0, cfg.COOLDOWN_STANDARD}
              /\ evaluation.ret = WholeEvaluation(cfg)

=============================================================================
